---- MODULE Spec2Model ----
(***************************************************************************)
(* Model of the gift-finder assistant                                      *)
(*   app/api/tools/gift_finder/search_redis/route.ts  (POST, Spec)         *)
(*   the get_product route and price bands            (ToolsSpec)          *)
(*   lib/redis.ts, the shared index client            (RedisSpec)          *)
(*   lib/tools/generate-ui-tool.ts, the schema builder (SchemaSpec)        *)
(*   config/ui/components.tsx, the UI tree interpreter (RenderSpec)        *)
(*   the same search sent twice                      (TwinSpec)           *)
(*   sanitize applied to its own output               (SanitizeSpec)       *)
(*   components/header.tsx, the header search box     (HeaderSpec)         *)
(* One request is followed from its arrival to its response.  The         *)
(* embedding provider, the shared Redis client and the index are external *)
(* collaborators: each call to them is one step whose outcome is chosen   *)
(* nondeterministically.                                                   *)
(*                                                                         *)
(* Conventions                                                             *)
(*   - an optional value (a JS value that may be undefined) is a sequence  *)
(*     of length 0 or 1: None = <<>>, Some(x) = <<x>>;                     *)
(*   - a string whose characters matter (query_text) is a sequence of      *)
(*     one-character strings, "NUL" standing for \x00;                     *)
(*   - k and the quantities computed from it are rationals, stored         *)
(*     multiplied by Scale (k = 2.5 is stored as 5).                       *)
(***************************************************************************)
EXTENDS Integers, Sequences, FiniteSets, TLC

\* the search route (POST search_redis)
VARIABLES pc, req, q, embLog, ftLog, firstFailure, raw, items, resp

\* getRedisClient calls made by the two tool routes
VARIABLES clientCalls

\* the product route (GET get_product)
VARIABLES gpc, greq, gLog, gresp

\* the shared index connection (lib/redis.ts)
VARIABLES client, created, isOpen, rpc, got

\* the schema builder (lib/tools/generate-ui-tool.ts)
VARIABLES registry, schema, instance, verdict

\* the UI tree interpreter (config/ui/components.tsx)
VARIABLES tree, rendered

\* the answer of an earlier, identical search, kept for comparison
VARIABLES prev

\* the header search box (components/header.tsx)
VARIABLES hpc, live, query, open, loading, results, activeIndex, timer,
          inflight, issued, newest

\* one application of sanitize and one of sanitize to its own output
VARIABLES sText, sMax, sOnce, sTwice

searchVars ==
  <<pc, req, q, embLog, ftLog, firstFailure, raw, items, resp, clientCalls>>

productVars == <<gpc, greq, gLog, gresp>>

redisVars == <<client, created, isOpen, rpc, got>>

schemaVars == <<registry, schema, instance, verdict>>

renderVars == <<tree, rendered>>

twinVars == <<prev>>

headerVars ==
  <<hpc, live, query, open, loading, results, activeIndex, timer, inflight,
    issued, newest>>

sanitizeVars == <<sText, sMax, sOnce, sTwice>>

\* what the steps of one part of the program leave alone
outsideTools ==
  <<redisVars, schemaVars, renderVars, twinVars, headerVars, sanitizeVars>>

outsideRedis ==
  <<searchVars, productVars, schemaVars, renderVars, twinVars, headerVars,
    sanitizeVars>>

outsideSchema ==
  <<searchVars, productVars, redisVars, renderVars, twinVars, headerVars,
    sanitizeVars>>

outsideRender ==
  <<searchVars, productVars, redisVars, schemaVars, twinVars, headerVars,
    sanitizeVars>>

outsideTwin ==
  <<productVars, redisVars, schemaVars, renderVars, headerVars, sanitizeVars>>

outsideHeader ==
  <<searchVars, productVars, redisVars, schemaVars, renderVars, twinVars,
    sanitizeVars>>

outsideSanitize ==
  <<searchVars, productVars, redisVars, schemaVars, renderVars, twinVars,
    headerVars>>

vars ==
  <<searchVars, productVars, redisVars, schemaVars, renderVars, twinVars,
    headerVars, sanitizeVars>>

None == <<>>
Some(x) == <<x>>

(* ---------------------------- bounds ----------------------------------- *)
\* rows of an index reply whose content is chosen freely
MaxHead == 2
\* further rows (copies of one document) appended to a reply
MaxPad == 4
\* concurrent callers of getRedisClient
MaxCallers == 3
\* component definitions in a registry
MaxComponents == 2
\* children of one container node
MaxChildren == 3
\* characters of a text given to sanitize
MaxText == 4
\* searches issued by the header search box
MaxSearches == 3

(* ------------------------ program constants ---------------------------- *)
Scale == 2
HardCap == 5
DefaultK == 8
MaxKQuery == 50
SanitizeMax == 12000
\* the relevance 0.4 of the assistant's instructions, in tenths
RelevanceThreshold == 4
\* components/header.tsx line 32, the default of MIN_CHARS
MIN_CHARS == 2

(* ----------------------------- helpers --------------------------------- *)
Min2(a, b) == IF a <= b THEN a ELSE b
Max2(a, b) == IF a >= b THEN a ELSE b
SetMin(S) == CHOOSE x \in S : \A y \in S : x <= y

\* Math.trunc of the rational n/Scale (ToIntegerOrInfinity of a slice bound)
Trunc(n) == IF n >= 0 THEN n \div Scale ELSE -((-n) \div Scale)

(* ------------------------------ sanitize ------------------------------- *)
IsSpace(c) == c \in {" ", "TAB"}

\* s.replace(/\x00/g, ' ')
ReplaceNul(s) == [i \in 1..Len(s) |-> IF s[i] = "NUL" THEN " " ELSE s[i]]

\* s.replace(/\s+/g, ' '): every run of whitespace becomes one blank
RECURSIVE CollapseSpace(_)
CollapseSpace(s) ==
  IF s = <<>> THEN <<>>
  ELSE IF IsSpace(s[1])
       THEN IF Len(s) > 1 /\ IsSpace(s[2])
            THEN CollapseSpace(Tail(s))
            ELSE <<" ">> \o CollapseSpace(Tail(s))
       ELSE <<s[1]>> \o CollapseSpace(Tail(s))

\* String.prototype.trim
RECURSIVE TrimLeft(_)
TrimLeft(s) == IF s # <<>> /\ IsSpace(s[1]) THEN TrimLeft(Tail(s)) ELSE s

RECURSIVE TrimRight(_)
TrimRight(s) ==
  IF s # <<>> /\ IsSpace(s[Len(s)]) THEN TrimRight(SubSeq(s, 1, Len(s) - 1)) ELSE s

Trim(s) == TrimRight(TrimLeft(s))

\* sanitize(t, max) for a string t
sanitize(t, max) ==
  LET s1 == Trim(CollapseSpace(ReplaceNul(t)))
      s2 == IF s1 = <<>> THEN <<".">> ELSE s1
  IN  IF Len(s2) > max THEN SubSeq(s2, 1, max) ELSE s2

(* --------------------------- request inputs ---------------------------- *)
\* query_text of the request body: missing, a non-string, or a string
QueryTexts ==
  { [t |-> "absent"], [t |-> "number"],
    [t |-> "string", s |-> <<>>],
    [t |-> "string", s |-> <<" ", "NUL">>],
    [t |-> "string", s |-> <<"a", " ", "TAB", "b">>] }

\* k of the request body: missing, a number (stored times Scale) or a
\* value that Number() turns into NaN
KInputs ==
  { [t |-> "absent"], [t |-> "nan"] } \cup
  { [t |-> "number", n |-> n] : n \in {-2, 0, 2, 5, 12} }

SortInputs == {"absent", "relevance", "price_asc", "price_desc"}

\* the requests of the search specification: no price bound
Requests ==
  [ query_text : QueryTexts, k : KInputs, sort_by : SortInputs,
    include_details : BOOLEAN, expanded : BOOLEAN,
    min_price : {None}, max_price : {None} ]

\* min_price / max_price of the request body: missing or a number
PriceBounds == {None, Some(1), Some(2)}

\* the requests of the tools specification: price bounds vary
BandRequests ==
  [ query_text : { [t |-> "absent"], [t |-> "number"],
                   [t |-> "string", s |-> <<"a">>] },
    k : { [t |-> "absent"] }, sort_by : {"absent", "price_desc"},
    include_details : BOOLEAN, expanded : {FALSE},
    min_price : PriceBounds, max_price : PriceBounds ]

ErrorMessages == {"m1", "m2"}

(* ------------------------ index and store contents --------------------- *)
\* A row of an FT.SEARCH reply: the returned fields of one document, each a
\* string or missing.
Doc(code, price, prezzo, score) ==
  [code |-> code, price |-> price, prezzo |-> prezzo, score |-> score]

docA == Doc(Some("A"), Some("1"), None, Some("2"))
docB == Doc(Some("B"), None, Some("2"), Some("1"))
docC == Doc(Some("C"), None, None, Some("1"))
docD == Doc(Some("D"), Some("1"), None, Some("1"))

Docs == {docA, docB, docC, docD}

\* a document whose price and prezzo differ, and one without a code
docE == Doc(Some("E"), Some("3"), Some("1"), Some("1"))
docF == Doc(None, Some("2"), None, Some("2"))

\* a document at the far end of the k-NN ordering, its score 0
docG == Doc(Some("G"), Some("1"), None, Some("0"))

\* a document that ties with docD on price and on score
docH == Doc(Some("H"), Some("1"), None, Some("1"))

Catalogue == Docs \cup {docE, docF, docG, docH}

RECURSIVE Pad(_)
Pad(n) == IF n = 0 THEN <<>> ELSE <<docB>> \o Pad(n - 1)

Heads == UNION { [1..n -> Docs] : n \in 0..MaxHead }

\* the replies the index may give to a k-NN query
RawReplies == { h \o Pad(n) : h \in Heads, n \in 0..MaxPad }

\* the replies over the whole catalogue, before any filter
CatalogueReplies == UNION { [1..n -> Catalogue] : n \in 0..MaxHead }

\* Number(v) for the field values that occur
Number(v) == CASE v = "" -> 0
               [] v = "0" -> 0
               [] v = "1" -> 1
               [] v = "2" -> 2
               [] v = "3" -> 3

\* redis.sendCommand(['JSON.GET', key]): the command throws, or returns nil
\* or the stored text
JsonGet(key) == CASE key = "prod:A" -> [kind |-> "text", text |-> "{json A}"]
                  [] key = "prod:B" -> [kind |-> "nil", text |-> ""]
                  [] key = "prod:C" -> [kind |-> "text", text |-> "{broken"]
                  [] OTHER -> [kind |-> "throw", text |-> ""]

\* JSON.parse: the parsed value, or a SyntaxError
JsonParse(text) == IF text = "{json A}"
                   THEN [ok |-> TRUE, value |-> "product A"]
                   ELSE [ok |-> FALSE, value |-> ""]

(* ---------------------------- query planning --------------------------- *)
\* lines 41-47: '*' when no bound is given, else
\* (@price:[lo hi]|@prezzo:[lo hi]) with -inf / +inf for a missing bound
filterExprOf(r) ==
  IF r.min_price # None \/ r.max_price # None
  THEN [all |-> FALSE, lo |-> r.min_price, hi |-> r.max_price]
  ELSE [all |-> TRUE, lo |-> None, hi |-> None]

\* a numeric range clause @field:[lo hi] of the index: the field is there
\* and its number lies in the inclusive range
InRange(field, f) ==
  /\ field # None
  /\ f.lo # None => f.lo[1] <= Number(field[1])
  /\ f.hi # None => Number(field[1]) <= f.hi[1]

\* the documents the index selects for a filter expression
IndexMatches(doc, f) ==
  f.all \/ InRange(doc.price, f) \/ InRange(doc.prezzo, f)

\* the replies the index may give to the k-NN query of request r
Replies(r) ==
  IF filterExprOf(r).all
  THEN RawReplies
  ELSE { s \in CatalogueReplies :
           \A i \in 1..Len(s) : IndexMatches(s[i], filterExprOf(r)) }

\* const { k = 8 } = body; Number(k)
NumberK(k) == CASE k.t = "absent" -> Some(DefaultK * Scale)
                [] k.t = "nan" -> None
                [] OTHER -> Some(k.n)

\* Math.min(5, Number(k) || 5)
kLimitOf(k) ==
  LET n == NumberK(k)
      v == IF n = None \/ n[1] = 0 THEN HardCap * Scale ELSE n[1]
  IN  Min2(HardCap * Scale, v)

\* Math.min(50, Math.max(kLimit, kLimit * 3))
kQueryOf(kLimit) == Min2(MaxKQuery * Scale, Max2(kLimit, kLimit * 3))

\* sort_by === 'price_desc' ? 'price_desc' : 'price_asc'
orderOf(sort_by) == IF sort_by = "price_desc" THEN "price_desc" ELSE "price_asc"

\* a validation that only looks at the type and lets '' through
InvalidQueryTextTypeOnly(qt) == qt.t # "string"

\* !query_text || typeof query_text !== 'string'
InvalidQueryText(qt) == qt.t # "string" \/ qt.s = <<>>

\* expanded ? `${q} alternative simili correlati` : q
expandedQuery(text, expanded) ==
  IF expanded THEN text \o <<" ", "alternative simili correlati">> ELSE text

(* ---------------------------- result assembly -------------------------- *)
\* obj.price != null ? Number(obj.price)
\*   : obj.prezzo != null ? Number(obj.prezzo) : undefined
priceOf(doc) == IF doc.price # None THEN Some(Number(doc.price[1]))
                ELSE IF doc.prezzo # None THEN Some(Number(doc.prezzo[1]))
                ELSE None

\* obj.score ? Number(obj.score) : undefined
scoreOf(doc) == IF doc.score # None /\ doc.score[1] # ""
                THEN Some(Number(doc.score[1]))
                ELSE None

\* the JSON.GET join of one row: the product to attach, if any.  A command
\* error and a parse error are both caught by the empty catch block.
productOf(doc, include_details) ==
  IF include_details /\ doc.code # None /\ doc.code[1] # ""
  THEN LET jraw == JsonGet("prod:" \o doc.code[1])
       IN  IF jraw.kind = "text" /\ jraw.text # "" /\ JsonParse(jraw.text).ok
           THEN Some(JsonParse(jraw.text).value)
           ELSE None
  ELSE None

\* the row pushed for one document of the reply
rowOf(doc, include_details) ==
  [ code |-> doc.code, price |-> priceOf(doc), score |-> scoreOf(doc),
    product |-> productOf(doc, include_details) ]

\* a loop that pushes a row only when its detail was attached
parseRowsDropping(reply, include_details) ==
  SelectSeq([i \in 1..Len(reply) |-> rowOf(reply[i], include_details)],
            LAMBDA row : ~include_details \/ row.product # None)

\* the loop over the reply: one row per document, in reply order
parseRows(reply, include_details) ==
  [i \in 1..Len(reply) |-> rowOf(reply[i], include_details)]

Sign(n) == IF n > 0 THEN 1 ELSE IF n < 0 THEN -1 ELSE 0

\* a.score ?? 0
scoreOr0(a) == IF a.score = None THEN 0 ELSE a.score[1]

\* a comparator whose tie-break is by descending score
comparatorTieDescending(a, b, dir) ==
  IF a.price = b.price
  THEN Sign(scoreOr0(b) - scoreOr0(a))
  ELSE IF a.price = None THEN dir
  ELSE IF b.price = None THEN -dir
  ELSE Sign(dir * (a.price[1] - b.price[1]))

\* a comparator whose answer for a full tie depends on how many requests the
\* process has served
comparatorTieByCall(a, b, dir) ==
  IF a.price = b.price
  THEN IF scoreOr0(a) = scoreOr0(b) THEN clientCalls % 2
                                    ELSE Sign(scoreOr0(a) - scoreOr0(b))
  ELSE IF a.price = None THEN dir
  ELSE IF b.price = None THEN -dir
  ELSE Sign(dir * (a.price[1] - b.price[1]))

\* the sort comparator; a missing price is Number.POSITIVE_INFINITY, so
\* pa - pb is +Infinity or -Infinity when exactly one price is missing
comparator(a, b, dir) ==
  IF a.price = b.price
  THEN Sign(scoreOr0(a) - scoreOr0(b))
  ELSE IF a.price = None THEN dir
  ELSE IF b.price = None THEN -dir
  ELSE Sign(dir * (a.price[1] - b.price[1]))

\* Array.prototype.sort is stable: x goes after every element that does not
\* compare greater than it
insertSorted(sorted, x, dir) ==
  LET later == {i \in 1..Len(sorted) : comparator(sorted[i], x, dir) > 0}
      p == IF later = {} THEN Len(sorted) + 1 ELSE SetMin(later)
  IN  SubSeq(sorted, 1, p - 1) \o <<x>> \o SubSeq(sorted, p, Len(sorted))

RECURSIVE sortItems(_, _)
sortItems(s, dir) ==
  IF Len(s) <= 1 THEN s
  ELSE insertSorted(sortItems(SubSeq(s, 1, Len(s) - 1), dir), s[Len(s)], dir)

\* Array.prototype.slice(0, end) for a rational end (stored times Scale)
slice0(s, end) ==
  LET rel == Trunc(end)
      fin == IF rel < 0 THEN Max2(Len(s) + rel, 0) ELSE Min2(rel, Len(s))
  IN  SubSeq(s, 1, fin)

\* items.slice().sort(...).slice(0, kLimit)
outOf(its, order, kLimit) ==
  slice0(sortItems(its, IF order = "price_asc" THEN 1 ELSE -1), kLimit)

(* ------------------------------ responses ------------------------------ *)
NoResponse == [status |-> 0]

BadRequest == [status |-> 400, error |-> "Missing query_text"]

\* the catch block of POST
ServerError(message) ==
  [status |-> 500, error |-> "Failed to query Redis", details |-> message]

\* a handler that answers an empty result with an error
SuccessOrNoMatch(r, its) ==
  IF its = <<>>
  THEN ServerError("no results")
  ELSE LET kLimit == kLimitOf(r.k)
           out == outOf(its, orderOf(r.sort_by), kLimit)
       IN  [ status |-> 200, count |-> Len(out), k |-> kLimit,
             filters |-> <<r.min_price, r.max_price>>,
             sort_by |-> orderOf(r.sort_by), mode_used |-> "semantic",
             items |-> out ]

Success(r, its) ==
  LET kLimit == kLimitOf(r.k)
      out == outOf(its, orderOf(r.sort_by), kLimit)
  IN  [ status |-> 200, count |-> Len(out), k |-> kLimit,
        filters |-> <<r.min_price, r.max_price>>,
        sort_by |-> orderOf(r.sort_by), mode_used |-> "semantic",
        items |-> out ]

(* ------------------------------- state --------------------------------- *)
\* pc            where the handler stands: "idle" (no request yet), "redis",
\*               "embed", "search", "retry", "assemble", "done"
\* req           the destructured request body
\* q             sanitize(query_text)
\* embLog        the inputs of the embeddings.create calls made so far
\* ftLog         the FT.SEARCH commands sent so far
\* firstFailure  why the first FT.SEARCH failed ("none" while it has not)
\* raw           the FT.SEARCH reply: None until a sendCommand has returned,
\*               then Some(rows)
\* items         the candidates built from raw
\* resp          the response ([status |-> 0] while there is none)
\* clientCalls   the number of getRedisClient calls of the routes

NoRequest ==
  [ query_text |-> [t |-> "absent"], k |-> [t |-> "absent"],
    sort_by |-> "absent", include_details |-> TRUE, expanded |-> FALSE,
    min_price |-> None, max_price |-> None ]

\* the product route before a request: no key, no lookup, no response
ProductIdle ==
  /\ gpc = "idle"
  /\ greq = [code |-> None, id |-> None]
  /\ gLog = <<>>
  /\ gresp = NoResponse

SearchIdle ==
  /\ pc = "idle"
  /\ req = NoRequest
  /\ q = <<>>
  /\ embLog = <<>>
  /\ ftLog = <<>>
  /\ firstFailure = "none"
  /\ raw = None
  /\ items = <<>>
  /\ resp = NoResponse
  /\ clientCalls = 0

\* the callers of getRedisClient
Callers == 1..MaxCallers

\* what a getRedisClient call has not returned yet
NoHandle ==
  [handle |-> 0, open |-> FALSE, foundClosed |-> FALSE, connected |-> FALSE]

\* lib/redis.ts line 3: let client = null; no call has been made
RedisIdle ==
  /\ client = 0
  /\ created = 0
  /\ isOpen = {}
  /\ rpc = [c \in Callers |-> "idle"]
  /\ got = [c \in Callers |-> NoHandle]

\* the schema builder before the module is loaded
SchemaIdle ==
  /\ registry = <<>>
  /\ schema = None
  /\ instance = None
  /\ verdict = None

\* the interpreter before a render call
RenderIdle ==
  /\ tree = None
  /\ rendered = None

\* no earlier answer has been kept
TwinIdle == prev = None

\* components/header.tsx lines 16-23, before the component is mounted
HeaderIdle ==
  /\ hpc = "unmounted"
  /\ live = FALSE
  /\ query = <<>>
  /\ open = FALSE
  /\ loading = FALSE
  /\ results = <<>>
  /\ activeIndex = -1
  /\ timer = None
  /\ inflight = {}
  /\ issued = 0
  /\ newest = 0

\* sanitize has not been applied
SanitizeIdle ==
  /\ sText = None
  /\ sMax = 0
  /\ sOnce = None
  /\ sTwice = None

Init ==
  /\ SearchIdle /\ ProductIdle /\ RedisIdle /\ SchemaIdle /\ RenderIdle
  /\ TwinIdle /\ HeaderIdle /\ SanitizeIdle

\* lines 20-37: the body is destructured and query_text validated
Receive(r) ==
  /\ pc = "idle"
  /\ req' = r
  /\ IF InvalidQueryText(r.query_text)
     THEN /\ resp' = BadRequest
          /\ pc' = "done"
          /\ q' = q
     ELSE /\ q' = sanitize(r.query_text.s, SanitizeMax)
          /\ pc' = "redis"
          /\ resp' = resp
  /\ UNCHANGED <<embLog, ftLog, firstFailure, raw, items, clientCalls>>
  /\ UNCHANGED <<productVars, outsideTools>>

\* line 38: await getRedisClient(); a rejected connect lands in the catch
GetClient ==
  /\ pc = "redis"
  /\ clientCalls' = clientCalls + 1
  /\ \/ /\ pc' = "embed"
        /\ resp' = resp
     \/ \E m \in ErrorMessages :
          /\ pc' = "done"
          /\ resp' = ServerError(m)
  /\ UNCHANGED <<req, q, embLog, ftLog, firstFailure, raw, items>>
  /\ UNCHANGED <<productVars, outsideTools>>

\* an embedding step that calls the provider again after a failure
EmbedRetrying ==
  /\ pc = "embed"
  /\ embLog' = Append(embLog, expandedQuery(q, req.expanded))
  /\ \/ /\ pc' = "search"
        /\ resp' = resp
     \/ /\ Len(embLog) = 0
        /\ pc' = "embed"
        /\ resp' = resp
     \/ \E m \in ErrorMessages :
          /\ Len(embLog) > 0
          /\ pc' = "done"
          /\ resp' = ServerError(m)
  /\ UNCHANGED <<req, q, ftLog, firstFailure, raw, items, clientCalls>>
  /\ UNCHANGED <<productVars, outsideTools>>

\* lines 50-58: one embeddings.create call
Embed ==
  /\ pc = "embed"
  /\ embLog' = Append(embLog, expandedQuery(q, req.expanded))
  /\ \/ /\ pc' = "search"
        /\ resp' = resp
     \/ \E m \in ErrorMessages :
          /\ pc' = "done"
          /\ resp' = ServerError(m)
  /\ UNCHANGED <<req, q, ftLog, firstFailure, raw, items, clientCalls>>
  /\ UNCHANGED <<productVars, outsideTools>>

\* the FT.SEARCH command of lines 80-99
argsWithDialect(r) ==
  [ filter |-> filterExprOf(r),
    knn |-> kQueryOf(kLimitOf(r.k)), limit |-> kQueryOf(kLimitOf(r.k)),
    dialect |-> TRUE ]

\* a retry that sends the very same arguments again
argsNoDialectKeepsFlag(r) == argsWithDialect(r)

\* argsWithDialect.slice(0, -2)
argsNoDialect(r) == [argsWithDialect(r) EXCEPT !.dialect = FALSE]

\* the ways a sendCommand of FT.SEARCH fails: the index does not accept the
\* DIALECT argument, or it cannot be reached
FailureKinds == {"dialect", "unreachable"}

\* lines 101-103: the first attempt, with DIALECT 2
SearchWithDialect ==
  /\ pc = "search"
  /\ ftLog' = Append(ftLog, argsWithDialect(req))
  /\ \/ \E reply \in Replies(req) :
          /\ raw' = Some(reply)
          /\ pc' = "assemble"
          /\ firstFailure' = firstFailure
     \/ \E f \in FailureKinds :
          /\ firstFailure' = f
          /\ pc' = "retry"
          /\ raw' = raw
  /\ UNCHANGED <<req, q, embLog, items, resp, clientCalls>>
  /\ UNCHANGED <<productVars, outsideTools>>

\* lines 104-106: the catch block sends the command again without DIALECT
SearchNoDialect ==
  /\ pc = "retry"
  /\ ftLog' = Append(ftLog, argsNoDialect(req))
  /\ \/ \E reply \in Replies(req) :
          /\ raw' = Some(reply)
          /\ pc' = "assemble"
          /\ resp' = resp
     \/ \E m \in ErrorMessages :
          /\ pc' = "done"
          /\ resp' = ServerError(m)
          /\ raw' = raw
  /\ UNCHANGED <<req, q, embLog, firstFailure, items, clientCalls>>
  /\ UNCHANGED <<productVars, outsideTools>>

\* lines 108-167: rows are parsed and joined, sorted, cut and returned
Assemble ==
  /\ pc = "assemble"
  /\ items' = parseRows(raw[1], req.include_details)
  /\ resp' = Success(req, items')
  /\ pc' = "done"
  /\ UNCHANGED <<req, q, embLog, ftLog, firstFailure, raw, clientCalls>>
  /\ UNCHANGED <<productVars, outsideTools>>

POST ==
  \/ \E r \in Requests : Receive(r)
  \/ GetClient
  \/ Embed
  \/ SearchWithDialect
  \/ SearchNoDialect
  \/ Assemble

Next == POST

Spec == Init /\ [][Next]_vars

(* -------------------------- the product route -------------------------- *)
\* gpc    where the GET handler stands: "idle", "redis", "lookup", "done"
\* greq   the code and id query parameters as searchParams.get returns them
\* gLog   the keys of the JSON.GET commands sent so far
\* gresp  the response

\* url.searchParams.get(name): missing, empty or a key
KeyInputs == {None, Some(""), Some("A"), Some("B"), Some("C")}

\* url.searchParams.get(name) || undefined
paramOf(v) == IF v = None \/ v = Some("") THEN None ELSE v

\* a validation that tests for null only and lets empty parameters through
MissingKeyNullOnly(r) == r.code = None /\ r.id = None

\* !code && !id
MissingKey(r) == paramOf(r.code) = None /\ paramOf(r.id) = None

MissingKeyResponse == [status |-> 400, error |-> "Missing code or id"]

\* the outer catch of GET
ProductError == [status |-> 500, error |-> "Failed to fetch product"]

\* `${envRedis.JSON_PREFIX}${id || code}`
jsonKeyOf(r) ==
  "prod:" \o (IF paramOf(r.id) # None THEN r.id[1] ELSE r.code[1])

\* lines 20-27: the parsed document, or null when the command throws, when
\* there is no text or when the text does not parse
lookupProduct(key) ==
  LET jraw == JsonGet(key)
  IN  IF jraw.kind = "text" /\ jraw.text # "" /\ JsonParse(jraw.text).ok
      THEN Some(JsonParse(jraw.text).value)
      ELSE None

\* product.code || product.id of a stored document
codeOfProduct(value) == IF value = "product A" THEN Some("A") ELSE None

\* (product && (product.code || product.id)) || code || id || null
codeOutOf(r, product) ==
  IF product # None /\ codeOfProduct(product[1]) # None
  THEN codeOfProduct(product[1])
  ELSE IF paramOf(r.code) # None THEN r.code
  ELSE paramOf(r.id)

\* a handler that answers a missing document with an error
ProductFoundOrError(r, product) ==
  IF product = None
  THEN [status |-> 404, error |-> "Not found"]
  ELSE [ status |-> 200, found |-> TRUE,
         code |-> codeOutOf(r, product), product |-> product ]

\* lines 29-34: { found: !!product, code: codeOut, product }
ProductFound(r, product) ==
  [ status |-> 200, found |-> product # None,
    code |-> codeOutOf(r, product), product |-> product ]

\* lines 6-15: the parameters are read and the key validated; the model
\* takes a product request only while no search request is under way
GReceive(c, i) ==
  /\ gpc = "idle"
  /\ pc = "idle"
  /\ greq' = [code |-> c, id |-> i]
  /\ IF MissingKey(greq')
     THEN gpc' = "done" /\ gresp' = MissingKeyResponse
     ELSE gpc' = "redis" /\ gresp' = gresp
  /\ UNCHANGED <<gLog>>
  /\ UNCHANGED <<searchVars, outsideTools>>

\* line 17: await getRedisClient(); a rejected connect lands in the catch
GGetClient ==
  /\ gpc = "redis"
  /\ clientCalls' = clientCalls + 1
  /\ \/ gpc' = "lookup" /\ gresp' = gresp
     \/ gpc' = "done" /\ gresp' = ProductError
  /\ UNCHANGED <<greq, gLog>>
  /\ UNCHANGED <<pc, req, q, embLog, ftLog, firstFailure, raw, items, resp>>
  /\ UNCHANGED outsideTools

\* lines 18-34: one JSON.GET, then the 200 response
GLookup ==
  /\ gpc = "lookup"
  /\ gLog' = Append(gLog, jsonKeyOf(greq))
  /\ gresp' = ProductFound(greq, lookupProduct(jsonKeyOf(greq)))
  /\ gpc' = "done"
  /\ UNCHANGED <<greq>>
  /\ UNCHANGED <<searchVars, outsideTools>>

GET ==
  \/ \E c, i \in KeyInputs : GReceive(c, i)
  \/ GGetClient
  \/ GLookup

\* a search request is taken only while no product request is under way
ReceiveBand(r) == gpc = "idle" /\ Receive(r)

\* the two tool routes, one request at a time, over the whole catalogue
ToolsNext ==
  \/ \E r \in BandRequests : ReceiveBand(r)
  \/ GetClient
  \/ Embed
  \/ SearchWithDialect
  \/ SearchNoDialect
  \/ Assemble
  \/ GET

ToolsSpec == Init /\ [][ToolsNext]_vars

(* ------------------------ the shared index client ---------------------- *)

\* a test that takes the stored handle only while it is open
hasOpenClient == client # 0 /\ client \in isOpen

\* lib/redis.ts line 6: if (client) ..., the module-level handle is set
hasClient == client # 0

\* the handle exists, is not open, and no connect of it is pending
closedHandle ==
  /\ client # 0
  /\ client \notin isOpen
  /\ \A c \in Callers : rpc[c] # "connecting"

\* getRedisClient up to its first suspension (lib/redis.ts lines 6-12): an
\* existing handle is returned as it is; otherwise the handle is created,
\* stored, and its connect awaited
Call(c) ==
  /\ rpc[c] = "idle"
  /\ IF hasClient
       THEN /\ rpc' = [rpc EXCEPT ![c] = "returned"]
            /\ got' = [got EXCEPT ![c] =
                 [handle |-> client, open |-> client \in isOpen,
                  foundClosed |-> closedHandle, connected |-> FALSE]]
            /\ UNCHANGED <<client, created>>
       ELSE /\ created' = created + 1
            /\ client' = created + 1
            /\ rpc' = [rpc EXCEPT ![c] = "connecting"]
            /\ got' = [got EXCEPT ![c] =
                 [handle |-> 0, open |-> FALSE,
                  foundClosed |-> FALSE, connected |-> TRUE]]
  /\ UNCHANGED isOpen
  /\ UNCHANGED outsideRedis

\* lib/redis.ts lines 12-13: connect resolves, the module-level handle is
\* returned
ConnectOk(c) ==
  /\ rpc[c] = "connecting"
  /\ isOpen' = isOpen \cup {client}
  /\ rpc' = [rpc EXCEPT ![c] = "returned"]
  /\ got' = [got EXCEPT ![c] =
       [handle |-> client, open |-> TRUE,
        foundClosed |-> FALSE, connected |-> TRUE]]
  /\ UNCHANGED <<client, created>>
  /\ UNCHANGED outsideRedis

\* lib/redis.ts line 12: connect rejects, the call throws and the handle
\* stays stored
ConnectFail(c) ==
  /\ rpc[c] = "connecting"
  /\ rpc' = [rpc EXCEPT ![c] = "failed"]
  /\ UNCHANGED <<client, created, isOpen, got>>
  /\ UNCHANGED outsideRedis

\* the connection of an open handle is closed
Disconnect ==
  /\ client \in isOpen
  /\ isOpen' = isOpen \ {client}
  /\ UNCHANGED <<client, created, rpc, got>>
  /\ UNCHANGED outsideRedis

RedisNext ==
  \/ \E c \in Callers : Call(c)
  \/ \E c \in Callers : ConnectOk(c)
  \/ \E c \in Callers : ConnectFail(c)
  \/ Disconnect

RedisSpec == Init /\ [][RedisNext]_vars

(* --------------------------- the schema builder ------------------------ *)

\* names the registry may give to a component
CompNames == {"card", "item"}

\* Object.keys(component.parameters) of a definition, in insertion order
ParamLists == {<<>>, <<"children">>, <<"name">>, <<"price", "children">>}

\* the definitions a registry may hold (config/components-definition, the
\* import of line 1)
Definitions == [name : CompNames, parameters : ParamLists]

Registries == UNION {[1..n -> Definitions] : n \in 1..MaxComponents}

\* the keys of a parameter list
Keys(params) == {params[i] : i \in 1..Len(params)}

\* component.parameters[key], the typed fragment of one parameter
ParamSchema(key) == [type |-> "param", of |-> key]

\* lines 11-14: the discriminator property
NameSchema(n) == [type |-> "string", enum |-> {n}]

\* lines 8-20: the entry of one definition; the spread of line 15 comes after
\* the name property and replaces it when a parameter is called 'name'
definitionOf(component) ==
  [type |-> "object",
   properties |->
     [key \in {"name"} \cup Keys(component.parameters) |->
        IF key \in Keys(component.parameters)
          THEN ParamSchema(key)
          ELSE NameSchema(component.name)],
   required |-> <<"name">> \o component.parameters,
   additionalProperties |-> FALSE]

\* lines 7-22: reduce over the first n definitions; acc[component.name] is
\* assigned, so a later definition replaces an earlier one of the same name
RECURSIVE componentsDefinitions(_, _)
componentsDefinitions(components, n) ==
  IF n = 0
    THEN <<>>
    ELSE LET acc == componentsDefinitions(components, n - 1)
             component == components[n]
         IN  [key \in DOMAIN acc \cup {component.name} |->
                IF key = component.name THEN definitionOf(component)
                                        ELSE acc[key]]

\* lines 3-5
componentsList(components) ==
  [i \in 1..Len(components) |-> [ref |-> components[i].name]]

\* lines 24-45; $defs is { component, ...componentsDefinitions }
generateUITool(components) ==
  LET defs == componentsDefinitions(components, Len(components))
      union == [anyOf |-> componentsList(components)]
  IN  [name |-> "generate_ui",
       parameters |->
         [type |-> "object",
          properties |-> [component |-> union],
          required |-> <<"component">>,
          additionalProperties |-> FALSE,
          defs |-> [key \in {"component"} \cup DOMAIN defs |->
                      IF key \in DOMAIN defs THEN defs[key] ELSE union]],
       strict |-> TRUE]

\* candidate values of the component property: an object with some keys, the
\* value of its name key (when present) being a string
FieldNames == {"name", "children", "price"}

Instances == [keys : SUBSET FieldNames, name : CompNames \cup {"bogus"}]

\* a property schema against the value of one key of an instance
validValue(propSchema, inst, key) ==
  propSchema.type = "string" => key = "name" /\ inst.name \in propSchema.enum

\* an object schema of lines 9-19 against an instance: required keys,
\* additionalProperties: false, and the property schemas
validObject(entry, inst) ==
  /\ \A i \in 1..Len(entry.required) : entry.required[i] \in inst.keys
  /\ inst.keys \subseteq DOMAIN entry.properties
  /\ \A key \in inst.keys : validValue(entry.properties[key], inst, key)

\* properties.component of lines 31-33: anyOf over the references, each
\* resolved in $defs
accepts(tool, inst) ==
  LET union == tool.parameters.properties.component.anyOf
  IN  \E i \in 1..Len(union) :
        validObject(tool.parameters.defs[union[i].ref], inst)

\* the module is loaded with a registry and the tool schema is built
LoadRegistry(components) ==
  /\ schema = None
  /\ registry' = components
  /\ schema' = Some(generateUITool(components))
  /\ UNCHANGED <<instance, verdict>>
  /\ UNCHANGED outsideSchema

\* a candidate component is validated against the built schema
Validate(inst) ==
  /\ schema # None
  /\ instance' = Some(inst)
  /\ verdict' = Some(accepts(schema[1], inst))
  /\ UNCHANGED <<registry, schema>>
  /\ UNCHANGED outsideSchema

SchemaNext ==
  \/ \E components \in Registries : LoadRegistry(components)
  \/ \E inst \in Instances : Validate(inst)

SchemaSpec == Init /\ [][SchemaNext]_vars

(* ------------------------- the UI tree interpreter --------------------- *)

\* the keys of componentsMap (config/ui/components.tsx lines 319-329)
RegisteredKinds ==
  {"card", "carousel", "plp_grid", "bar_chart", "header", "table", "item",
   "order"}

\* the match field of a node: absent, a string, or a number in tenths
MatchInputs ==
  {[t |-> "absent"], [t |-> "string"]} \cup
  {[t |-> "number", n |-> n] : n \in {0, 2, 5, 9}}

\* the columns field of a grid: absent, or a number stored times Scale
ColumnInputs ==
  {[t |-> "absent"]} \cup
  {[t |-> "number", n |-> n] : n \in {-2, 0, 2, 4, 5, 6, 8, 10, 12, 13, 14}}

Absent == [t |-> "absent"]

\* a node of a UI tree
Node(name, id, match, columns, children) ==
  [name |-> name, id |-> id, match |-> match, columns |-> columns,
   children |-> children, price |-> Absent]

itemNode(id, match) == Node("item", id, match, Absent, None)

\* a node whose name is not registered
bogusNode == Node("bogus", "b", Absent, Absent, None)

headerNode == Node("header", "h", Absent, Absent, None)

\* the children of the grids that are rendered
GridChildren ==
  {itemNode("x", m) : m \in MatchInputs} \cup
  {itemNode("y", [t |-> "number", n |-> 5]), bogusNode}

\* the sequences of at most MaxChildren nodes of a set
ChildLists(nodes) == UNION {[1..n -> nodes] : n \in 0..MaxChildren}

\* grids whose children vary, and grids whose columns vary
Grids ==
  {Node("plp_grid", "g", Absent, [t |-> "number", n |-> 3 * Scale], Some(cs)) :
     cs \in ChildLists(GridChildren)} \cup
  {Node("plp_grid", "g", Absent, c, cs) :
     c \in ColumnInputs,
     cs \in {None, Some(<<itemNode("x", Absent), itemNode("y", [t |-> "number", n |-> 5])>>)}}

\* nested nodes: containers with an unknown child, an unknown node with a
\* child of its own
NestedNodes ==
  {Node("card", "n", Absent, Absent, Some(<<itemNode("x", Absent), bogusNode>>)),
   Node("carousel", "n", Absent, Absent, Some(<<bogusNode, headerNode>>)),
   Node("plp_grid", "n", Absent, Absent, Some(<<bogusNode, itemNode("x", Absent)>>)),
   Node("bogus", "n", Absent, Absent, Some(<<itemNode("x", Absent)>>))}

CardChildren == {itemNode("x", Absent), headerNode, bogusNode} \cup NestedNodes

Cards ==
  {Node(name, "c", Absent, Absent, cs) :
     name \in {"card", "carousel"},
     cs \in {None} \cup {Some(l) : l \in ChildLists(CardChildren)}}

\* the price and match an item may be given: absent, a string, NaN, or a
\* number (price in euros, match in tenths)
PriceInputs ==
  {[t |-> "absent"], [t |-> "string"], [t |-> "nan"]} \cup
  {[t |-> "number", n |-> n] : n \in {0, 12}}

ItemMatchInputs ==
  MatchInputs \cup {[t |-> "nan"]} \cup
  {[t |-> "number", n |-> n] : n \in {-1, 12}}

\* items rendered on their own
Items ==
  {[itemNode(id, m) EXCEPT !.price = p] :
     id \in {"x", "y"}, m \in ItemMatchInputs, p \in PriceInputs}

Trees == Grids \cup Cards \cup Items

RECURSIVE getComponent(_)

\* a map that stops at the first child that renders nothing
mapChildrenUntilUnknown(children) ==
  LET unknown == {i \in 1..Len(children) : getComponent(children[i]) = None}
      n == IF unknown = {} THEN Len(children) ELSE SetMin(unknown) - 1
  IN  [i \in 1..n |-> getComponent(children[i])]

\* children.map(child => <Fragment>{getComponent(child)}</Fragment>) of lines
\* 229-231, 301-303 and 312-314
mapChildren(children) ==
  [i \in 1..Len(children) |-> getComponent(children[i])]

\* lines 297-307
CardComponent(node) ==
  [kind |-> "card",
   children |-> IF node.children # None THEN mapChildren(node.children[1])
                                         ELSE <<>>]

\* lines 309-317
CarouselComponent(node) ==
  [kind |-> "carousel",
   children |-> IF node.children # None THEN mapChildren(node.children[1])
                                         ELSE <<>>]

\* a column count that is not capped at 6
colsOfUncapped(columns) ==
  IF columns.t = "number" /\ columns.n # 0 /\ columns.n >= 1 * Scale
    THEN columns.n
    ELSE 3 * Scale

\* line 216: columns && columns >= 1 ? Math.min(columns, 6) : 3, times Scale
colsOf(columns) ==
  IF columns.t = "number" /\ columns.n # 0 /\ columns.n >= 1 * Scale
    THEN Min2(columns.n, 6 * Scale)
    ELSE 3 * Scale

\* lines 218-227: the grid class, by its number of columns
gridColsClass(cols) ==
  IF cols \in {2 * Scale, 4 * Scale, 5 * Scale, 6 * Scale} THEN cols \div Scale
                                                            ELSE 3

\* lines 229-230: typeof child?.match === 'number' ? child.match : 0
effectiveMatch(child) == IF child.match.t = "number" THEN child.match.n ELSE 0

\* a comparator that orders by ascending match
plpCompareAscending(a, b) == effectiveMatch(a) - effectiveMatch(b)

\* line 231: return mb - ma
plpCompare(a, b) == effectiveMatch(b) - effectiveMatch(a)

\* Array.prototype.sort with the comparator of the grid: stable
plpInsert(sorted, x) ==
  LET later == {i \in 1..Len(sorted) : plpCompare(sorted[i], x) > 0}
      p == IF later = {} THEN Len(sorted) + 1 ELSE SetMin(later)
  IN  SubSeq(sorted, 1, p - 1) \o <<x>> \o SubSeq(sorted, p, Len(sorted))

RECURSIVE plpSort(_)
plpSort(s) ==
  IF s = <<>> THEN <<>>
  ELSE plpInsert(plpSort(SubSeq(s, 1, Len(s) - 1)), s[Len(s)])

\* lines 209-235
PlpGridComponent(node) ==
  LET sorted == plpSort(IF node.children # None THEN node.children[1] ELSE <<>>)
  IN  [kind |-> "plp_grid",
       gridCols |-> gridColsClass(colsOf(node.columns)),
       children |-> mapChildren(sorted)]

\* lines 27-38: null unless the value is a number that is not NaN, else the
\* amount formatted as euros
formatEUR(value) ==
  IF value.t # "number" THEN None
                        ELSE Some([currency |-> "EUR", amount |-> value.n])

\* a price test that only asks for the field to be present
showsPriceUnlessAbsent(price) == price.t # "absent"

\* line 166: typeof price === 'number' && !isNaN(price)
showsPrice(price) == price.t = "number"

\* line 173: typeof match === 'number' && match >= 0
showsMatch(match) == match.t = "number" /\ match.n >= 0

\* line 175: Math.round(Math.max(0, Math.min(1, match)) * 100), match in
\* tenths
matchPercent(match) == Max2(0, Min2(10, match.n)) * 10

\* lines 166-178: the price line and the match line of an item
ItemComponent(node) ==
  [kind |-> "item", id |-> node.id, match |-> node.match,
   priceLine |-> IF showsPrice(node.price) THEN Some(formatEUR(node.price))
                                            ELSE None,
   matchLine |-> IF showsMatch(node.match) THEN Some(matchPercent(node.match))
                                            ELSE None]

\* the leaf components: an item shows its own fields, the others are opaque
LeafComponent(node) ==
  IF node.name = "item" THEN ItemComponent(node) ELSE [kind |-> node.name]

\* lib/components-mapping: the handler registered for node.name is applied to
\* the node; a name that is not registered renders nothing
getComponent(node) ==
  IF node.name \notin RegisteredKinds THEN None
  ELSE IF node.name = "card" THEN Some(CardComponent(node))
  ELSE IF node.name = "carousel" THEN Some(CarouselComponent(node))
  ELSE IF node.name = "plp_grid" THEN Some(PlpGridComponent(node))
  ELSE Some(LeafComponent(node))

\* one render call of a tree
Render(t) ==
  /\ tree = None
  /\ tree' = Some(t)
  /\ rendered' = Some(getComponent(t))
  /\ UNCHANGED outsideRender

\* the rendered tree is discarded
Discard ==
  /\ tree # None
  /\ tree' = None
  /\ rendered' = None
  /\ UNCHANGED outsideRender

RenderNext ==
  \/ \E t \in Trees : Render(t)
  \/ Discard

RenderSpec == Init /\ [][RenderNext]_vars

(* ------------------------ the same search, twice ----------------------- *)

\* the requests that are sent twice: a price band, every ordering
TwinRequests ==
  [ query_text : {[t |-> "string", s |-> <<"a">>]},
    k : {[t |-> "absent"]},
    sort_by : {"absent", "price_asc", "price_desc"},
    include_details : BOOLEAN,
    expanded : {FALSE},
    min_price : {None},
    max_price : {Some(1)} ]

\* a request arrives; the second one is the first one again
TwinReceive(r) ==
  /\ gpc = "idle"
  /\ prev # None => r = prev[1].req
  /\ Receive(r)

\* the index is unchanged: the second search is answered with the rows of
\* the first, in the same order
TwinSearchWithDialect ==
  /\ SearchWithDialect
  /\ prev # None /\ raw' # None => raw' = prev[1].raw

TwinSearchNoDialect ==
  /\ SearchNoDialect
  /\ prev # None /\ raw' # None => raw' = prev[1].raw

\* the first answer is kept and the handler is ready for the next request
KeepAnswer ==
  /\ pc = "done"
  /\ resp.status = 200
  /\ prev = None
  /\ prev' = Some([req |-> req, raw |-> raw, items |-> resp.items])
  /\ pc' = "idle"
  /\ req' = NoRequest
  /\ q' = <<>>
  /\ embLog' = <<>>
  /\ ftLog' = <<>>
  /\ firstFailure' = "none"
  /\ raw' = None
  /\ items' = <<>>
  /\ resp' = NoResponse
  /\ UNCHANGED clientCalls
  /\ UNCHANGED outsideTwin

TwinNext ==
  \/ \E r \in TwinRequests : TwinReceive(r)
  \/ GetClient
  \/ Embed
  \/ TwinSearchWithDialect
  \/ TwinSearchNoDialect
  \/ Assemble
  \/ KeepAnswer

TwinSpec == Init /\ [][TwinNext]_vars

(* ----------------------- sanitize, applied twice ----------------------- *)

\* the characters of the texts: a letter, a blank, \x00
TextChars == {"a", " ", "NUL"}

Texts == UNION {[1..n -> TextChars] : n \in 0..MaxText}

\* the length caps: small ones, which cut the texts, and the default
Caps == {1, 2, 3, SanitizeMax}

\* sanitize(t, max) is called
Sanitize(t, max) ==
  /\ sText = None
  /\ sText' = Some(t)
  /\ sMax' = max
  /\ sOnce' = Some(sanitize(t, max))
  /\ UNCHANGED sTwice
  /\ UNCHANGED outsideSanitize

\* sanitize is called on its own output, with the same cap
SanitizeAgain ==
  /\ sOnce # None
  /\ sTwice = None
  /\ sTwice' = Some(sanitize(sOnce[1], sMax))
  /\ UNCHANGED <<sText, sMax, sOnce>>
  /\ UNCHANGED outsideSanitize

SanitizeNext ==
  \/ \E t \in Texts, max \in Caps : Sanitize(t, max)
  \/ SanitizeAgain

SanitizeSpec == Init /\ [][SanitizeNext]_vars

(* ------------------------ the header search box ------------------------ *)

\* the values of the input: empty, too short, and two that are searched
Vals == {<<>>, <<"a">>, <<"a", "b">>, <<" ", "a", "c">>}

\* the items search_redis may answer with: none, or two of which the second
\* has the higher similarity
ResponseItems ==
  {<<>>,
   <<[code |-> "A", similarity |-> None], [code |-> "B", similarity |-> Some(5)]>>}

\* the search_redis calls that may be pending: the order of issue and the
\* trimmed text
Searches == [id : 1..MaxSearches, q : {Trim(val) : val \in Vals}]

\* line 50: (b?.similarity ?? 0) - (a?.similarity ?? 0)
similarityOr0(item) == IF item.similarity # None THEN item.similarity[1] ELSE 0

\* lines 48-50: a copy of the items, sorted by descending similarity (stable)
simInsert(sorted, x) ==
  LET later == {i \in 1..Len(sorted) : similarityOr0(x) - similarityOr0(sorted[i]) > 0}
      p == IF later = {} THEN Len(sorted) + 1 ELSE SetMin(later)
  IN  SubSeq(sorted, 1, p - 1) \o <<x>> \o SubSeq(sorted, p, Len(sorted))

RECURSIVE simSort(_)
simSort(s) ==
  IF s = <<>> THEN <<>>
  ELSE simInsert(simSort(SubSeq(s, 1, Len(s) - 1)), s[Len(s)])

\* the items of a response, each marked with the search that it answers
answerOf(search, its) ==
  LET sorted == simSort(its)
  IN  [i \in 1..Len(sorted) |->
         [code |-> sorted[i].code, similarity |-> sorted[i].similarity,
          search |-> search.id]]

\* a dropdown that opens after every completed search
openAfterSearchAlways(its) == TRUE

\* line 52: setOpen(!!items.length)
openAfterSearch(its) == its # <<>>

\* lines 37-39, 123-125, 134-136: the result list is emptied and closed
ClearResults ==
  /\ results' = <<>>
  /\ open' = FALSE
  /\ activeIndex' = -1

\* lines 34-47: runSearch up to its await
RunSearch(qv) ==
  LET qTrim == Trim(qv)
  IN  IF qTrim = <<>> \/ Len(qTrim) < MIN_CHARS
        THEN /\ ClearResults
             /\ UNCHANGED <<loading, inflight, issued>>
        ELSE /\ issued < MaxSearches
             /\ loading' = TRUE
             /\ issued' = issued + 1
             /\ inflight' = inflight \cup {[id |-> issued + 1, q |-> qTrim]}
             /\ UNCHANGED <<results, open, activeIndex>>

\* the component is mounted; LIVE_SEARCH is read from the environment
Mount(l) ==
  /\ hpc = "unmounted"
  /\ hpc' = "mounted"
  /\ live' = l
  /\ UNCHANGED <<query, open, loading, results, activeIndex, timer, inflight,
                 issued, newest>>
  /\ UNCHANGED outsideHeader

\* lines 119-140: the input changes
Change(val) ==
  /\ hpc = "mounted"
  /\ val # query
  /\ query' = val
  /\ IF val = <<>>
       THEN ClearResults /\ UNCHANGED timer
       ELSE /\ timer' = IF live THEN Some(val) ELSE timer
            /\ UNCHANGED <<results, open, activeIndex>>
  /\ UNCHANGED <<hpc, live, loading, inflight, issued, newest>>
  /\ UNCHANGED outsideHeader

\* lines 130-138: the debounce timer fires
TimerFires ==
  /\ hpc = "mounted"
  /\ timer # None
  /\ timer' = None
  /\ IF Len(Trim(timer[1])) >= MIN_CHARS
       THEN RunSearch(timer[1])
       ELSE ClearResults /\ UNCHANGED <<loading, inflight, issued>>
  /\ UNCHANGED <<hpc, live, query, newest>>
  /\ UNCHANGED outsideHeader

\* lines 97-113: the form is submitted
Submit ==
  /\ hpc = "mounted"
  /\ IF live /\ activeIndex + 1 \in 1..Len(results)
       THEN /\ open' = FALSE
            /\ query' = <<>>
            /\ results' = <<>>
            /\ UNCHANGED <<activeIndex, loading, inflight, issued>>
       ELSE /\ RunSearch(query)
            /\ UNCHANGED query
  /\ UNCHANGED <<hpc, live, timer, newest>>
  /\ UNCHANGED outsideHeader

\* lines 48-56: search_redis resolves
Respond(search, its) ==
  /\ search \in inflight
  /\ inflight' = inflight \ {search}
  /\ results' = answerOf(search, its)
  /\ open' = openAfterSearch(results')
  /\ activeIndex' = IF results' # <<>> THEN 0 ELSE -1
  /\ loading' = FALSE
  /\ newest' = Max2(newest, search.id)
  /\ UNCHANGED <<hpc, live, query, timer, issued>>
  /\ UNCHANGED outsideHeader

\* lines 54-56: search_redis rejects
Fail(search) ==
  /\ search \in inflight
  /\ inflight' = inflight \ {search}
  /\ loading' = FALSE
  /\ UNCHANGED <<hpc, live, query, open, results, activeIndex, timer, issued,
                 newest>>
  /\ UNCHANGED outsideHeader

\* lines 141-143
Focus ==
  /\ hpc = "mounted"
  /\ open' = IF results # <<>> THEN TRUE ELSE open
  /\ UNCHANGED <<hpc, live, query, loading, results, activeIndex, timer,
                 inflight, issued, newest>>
  /\ UNCHANGED outsideHeader

KeyNames == {"ArrowDown", "ArrowUp", "Enter", "Escape", "a"}

\* lines 144-161
KeyDown(key) ==
  /\ hpc = "mounted"
  /\ open' = IF key = "Escape" THEN FALSE
             ELSE IF ~open /\ results # <<>> THEN TRUE
             ELSE open
  /\ activeIndex' =
       IF key = "ArrowDown"
         THEN IF results # <<>>
                THEN (activeIndex + 1 + Len(results)) % Len(results) ELSE -1
       ELSE IF key = "ArrowUp"
         THEN IF results # <<>>
                THEN (activeIndex - 1 + Len(results)) % Len(results) ELSE -1
       ELSE activeIndex
  /\ UNCHANGED <<hpc, live, query, loading, results, timer, inflight, issued,
                 newest>>
  /\ UNCHANGED outsideHeader

\* the buttons of lines 221-268 are rendered
ResultsShown == open /\ ~loading /\ results # <<>>

\* line 224
MouseEnter(idx) ==
  /\ ResultsShown
  /\ idx \in 0..(Len(results) - 1)
  /\ activeIndex' = idx
  /\ UNCHANGED <<hpc, live, query, open, loading, results, timer, inflight,
                 issued, newest>>
  /\ UNCHANGED outsideHeader

\* lines 225-230
ClickResult(idx) ==
  /\ ResultsShown
  /\ idx \in 0..(Len(results) - 1)
  /\ open' = FALSE
  /\ query' = <<>>
  /\ results' = <<>>
  /\ UNCHANGED <<hpc, live, loading, activeIndex, timer, inflight, issued,
                 newest>>
  /\ UNCHANGED outsideHeader

\* lines 76-83: a mousedown outside the container
OutsideClick ==
  /\ hpc = "mounted"
  /\ open' = FALSE
  /\ UNCHANGED <<hpc, live, query, loading, results, activeIndex, timer,
                 inflight, issued, newest>>
  /\ UNCHANGED outsideHeader

HeaderNext ==
  \/ \E l \in BOOLEAN : Mount(l)
  \/ \E val \in Vals : Change(val)
  \/ TimerFires
  \/ Submit
  \/ \E search \in Searches, its \in ResponseItems : Respond(search, its)
  \/ \E search \in Searches : Fail(search)
  \/ Focus
  \/ \E key \in KeyNames : KeyDown(key)
  \/ \E idx \in 0..1 : MouseEnter(idx)
  \/ \E idx \in 0..1 : ClickResult(idx)
  \/ OutsideClick

HeaderSpec == Init /\ [][HeaderNext]_vars

(* ------------------------------- claims -------------------------------- *)
Answered200 == pc = "done" /\ resp.status = 200

PriceOrdered == req.sort_by \in {"price_asc", "price_desc"}

\* C1 (as claimed): a 200 response holds at most min(5, k) items, k being
\* the requested k (8 when absent; only the cap of 5 applies when k is not a
\* number; a k below 0 allows no item at all).
CountWithinRequestedK ==
  Answered200 =>
    /\ resp.count <= HardCap
    /\ NumberK(req.k) # None =>
         resp.count * Scale <= Max2(0, NumberK(req.k)[1])

\* C2 (as claimed): with sort_by 'relevance' or omitted the returned items
\* are the first rows of the index reply, in reply order.
RelevanceKeepsIndexOrder ==
  (Answered200 /\ req.sort_by \in {"absent", "relevance"}) =>
    resp.items = SubSeq(items, 1, Len(resp.items))

\* C3: among the returned items that have a price, price_asc gives
\* non-decreasing prices and price_desc non-increasing prices, and in both
\* modes items of equal price come in ascending score.
PriceSequenceOrdered ==
  (Answered200 /\ PriceOrdered) =>
    \A i, j \in 1..Len(resp.items) :
      LET a == resp.items[i]
          b == resp.items[j]
      IN  (i < j /\ a.price # None /\ b.price # None) =>
            /\ req.sort_by = "price_asc" => a.price[1] <= b.price[1]
            /\ req.sort_by = "price_desc" => a.price[1] >= b.price[1]
            /\ (a.price = b.price /\ a.score # None /\ b.score # None) =>
                 a.score[1] <= b.score[1]

\* C3 witness: a price_desc response that differs from the reply order and
\* holds two items of different price and two of equal price and different
\* score.
PriceSequenceOrderedWitness ==
  /\ Answered200
  /\ req.sort_by = "price_desc"
  /\ resp.items # SubSeq(items, 1, Len(resp.items))
  /\ \E i, j \in 1..Len(resp.items) :
       /\ i < j
       /\ resp.items[i].price # None /\ resp.items[j].price # None
       /\ resp.items[i].price[1] > resp.items[j].price[1]
  /\ \E i, j \in 1..Len(resp.items) :
       /\ i < j
       /\ resp.items[i].price # None
       /\ resp.items[i].price = resp.items[j].price
       /\ resp.items[i].score[1] < resp.items[j].score[1]

Priced(s) == {i \in 1..Len(s) : s[i].price # None}

\* C4 (as claimed): in both price orderings no returned item without a price
\* precedes one with a price, and an item without a price is returned only
\* if every candidate with a price is returned as well.
PricelessLast ==
  (Answered200 /\ PriceOrdered) =>
    /\ \A i, j \in 1..Len(resp.items) :
         (i < j /\ resp.items[i].price = None) => resp.items[j].price = None
    /\ Priced(resp.items) # 1..Len(resp.items) =>
         Cardinality(Priced(resp.items)) = Cardinality(Priced(items))

\* the text is a string that trimming leaves empty
EmptyAfterTrim(qt) ==
  qt.t = "string" /\ \A i \in 1..Len(qt.s) : qt.s[i] \in {" ", "TAB", "NUL"}

\* C5 (as claimed): a request whose query_text is empty after trimming is
\* rejected with a client error and no embedding call is made for it.
EmptyAfterTrimRejected ==
  (pc # "idle" /\ EmptyAfterTrim(req.query_text)) =>
    (pc = "done" /\ resp.status = 400 /\ embLog = <<>>)

\* C5 (amended): a query_text that is missing, not a string or the empty
\* string is rejected with 400 before any embedding call; a non-empty string
\* of whitespace/NUL characters only is not rejected, and what is embedded
\* for it starts with the placeholder '.'.
EmptyStringRejected ==
  pc # "idle" =>
    /\ (req.query_text.t # "string" \/ req.query_text.s = <<>>) =>
         (pc = "done" /\ resp.status = 400 /\ embLog = <<>> /\ ftLog = <<>>)
    /\ (EmptyAfterTrim(req.query_text) /\ req.query_text.s # <<>>) =>
         /\ resp.status # 400
         /\ q = <<".">>
         /\ \A i \in 1..Len(embLog) : embLog[i][1] = "."

\* C5 witness: the empty string has been rejected.
EmptyStringRejectedWitness ==
  /\ pc = "done"
  /\ req.query_text = [t |-> "string", s |-> <<>>]
  /\ resp.status = 400
  /\ embLog = <<>>

\* C6: at most two FT.SEARCH commands are sent; the first carries DIALECT,
\* the second is sent only after the first failed and is the first without
\* DIALECT; after the second the handler never searches again: it assembles
\* the reply or has answered, with 500 if the second attempt failed.
AtMostOneRetry ==
  /\ Len(ftLog) <= 2
  /\ Len(ftLog) >= 1 =>
       /\ ftLog[1].dialect
       /\ ftLog[1].knn = kQueryOf(kLimitOf(req.k))
  /\ Len(ftLog) = 2 =>
       /\ firstFailure # "none"
       /\ ~ftLog[2].dialect
       /\ [ftLog[2] EXCEPT !.dialect = TRUE] = ftLog[1]
       /\ pc \in {"assemble", "done"}
       /\ (pc = "done" /\ raw = None) => resp.status = 500

\* C6 witness: both attempts failed and the request ended with an error.
AtMostOneRetryWitness ==
  /\ pc = "done"
  /\ Len(ftLog) = 2
  /\ raw = None
  /\ resp.status = 500

\* C7 (as claimed): a second FT.SEARCH is sent only when the index rejected
\* the dialect argument; a request whose first attempt failed for another
\* reason ends as a service error after that single attempt.
RetryOnlyOnDialectRejection ==
  /\ Len(ftLog) >= 2 => firstFailure = "dialect"
  /\ (pc = "done" /\ firstFailure = "unreachable") => resp.status = 500

\* the outcome of the detail lookup of one row
LookupOutcome(doc) ==
  LET jraw == JsonGet("prod:" \o doc.code[1])
  IN  IF jraw.kind = "throw" THEN "throws"
      ELSE IF jraw.kind = "nil" THEN "nothing"
      ELSE IF ~JsonParse(jraw.text).ok THEN "malformed"
      ELSE "found"

\* C8: with include_details, once the index has replied the request ends
\* with 200 and the candidate list holds exactly one item per row, in row
\* order; a row whose lookup throws, finds nothing or returns malformed JSON
\* is there without a product.
LookupFailureKeepsCandidate ==
  (pc = "done" /\ req.include_details /\ raw # None) =>
    /\ resp.status = 200
    /\ Len(items) = Len(raw[1])
    /\ \A i \in 1..Len(items) :
         /\ items[i].code = raw[1][i].code
         /\ LookupOutcome(raw[1][i]) # "found" => items[i].product = None

\* C8 witness: a 200 response for a reply with a row whose lookup throws,
\* one whose lookup finds nothing and one whose JSON is malformed.
LookupFailureKeepsCandidateWitness ==
  /\ Answered200
  /\ req.include_details
  /\ raw # None
  /\ \A o \in {"throws", "nothing", "malformed"} :
       \E i \in 1..Len(raw[1]) :
         /\ LookupOutcome(raw[1][i]) = o
         /\ \E j \in 1..Len(resp.items) : resp.items[j].code = raw[1][i].code

\* C9: when the index replies with zero rows the request ends with status
\* 200, count 0 and an empty items list.
ZeroRowsIsSuccess ==
  (pc = "done" /\ raw = Some(<<>>)) =>
    (resp.status = 200 /\ resp.count = 0 /\ resp.items = <<>>)

\* C9 witness: a request answered after an empty reply.
ZeroRowsIsSuccessWitness ==
  /\ pc = "done"
  /\ raw = Some(<<>>)
  /\ resp.status = 200
  /\ resp.count = 0

\* C10 (as claimed): the body of a failed search is the same whatever the
\* message of the underlying error.
ErrorBodyIndependentOfMessage ==
  (pc = "done" /\ resp.status = 500) =>
    \A m \in ErrorMessages : resp = ServerError(m)

\* C11 (as claimed): every item of a search response has a code.
EveryItemHasCode ==
  Answered200 => \A i \in 1..Len(resp.items) : resp.items[i].code # None

\* C12 (as claimed): every returned item that has a price has it inside the
\* requested band, a missing bound being unbounded.
PriceWithinBand ==
  Answered200 =>
    \A i \in 1..Len(resp.items) :
      resp.items[i].price # None =>
        /\ req.min_price # None => req.min_price[1] <= resp.items[i].price[1]
        /\ req.max_price # None => resp.items[i].price[1] <= req.max_price[1]

\* the product request named a key and its lookup has been answered
LookedUp == gpc = "done" /\ gLog # <<>>

InputErrorsRejectedAtOnce ==
  /\ (pc # "idle" /\ req.query_text.t # "string") =>
       /\ pc = "done" /\ resp.status = 400
       /\ clientCalls = 0 /\ embLog = <<>> /\ ftLog = <<>>
  /\ (gpc # "idle" /\ greq.code \in {None, Some("")}
                   /\ greq.id \in {None, Some("")}) =>
       /\ gpc = "done" /\ gresp.status = 400
       /\ clientCalls = 0 /\ gLog = <<>>

\* C16 witness: a search request with a query_text that is not a string has
\* been rejected.
InputErrorsRejectedAtOnceWitness ==
  /\ pc = "done"
  /\ req.query_text.t = "number"
  /\ resp.status = 400
  /\ clientCalls = 0

\* C13: under any interleaving of getRedisClient calls, createClient runs at
\* most once and all callers that got a handle got the same one
SingleSharedHandle ==
  /\ created <= 1
  /\ \A c1, c2 \in Callers :
       rpc[c1] = "returned" /\ rpc[c2] = "returned"
         => got[c1].handle = got[c2].handle

\* two callers hold the handle, one of them having called while the first
\* connect was still pending
SingleSharedHandleWitness ==
  \E c1, c2 \in Callers :
    /\ c1 # c2
    /\ rpc[c1] = "returned" /\ got[c1].connected
    /\ rpc[c2] = "returned" /\ ~got[c2].connected
    /\ ~got[c2].open /\ ~got[c2].foundClosed
    /\ created = 1

\* C14: a call that finds the handle stored but not open (its connect failed,
\* or it was closed later) connects it before returning it
ReconnectOnDemand ==
  \A c \in Callers :
    rpc[c] = "returned" /\ got[c].foundClosed
      => got[c].connected /\ got[c].open

\* C17: for every definition of the registry, the schema entry under its name
\* is an object schema that requires 'name' plus the declared parameters,
\* whose name property admits only the component's name, and that disallows
\* additional properties
EntryMatchesDefinition ==
  schema # None =>
    \A i \in 1..Len(registry) :
      LET entry == schema[1].parameters.defs[registry[i].name]
      IN  /\ entry.type = "object"
          /\ entry.required = <<"name">> \o registry[i].parameters
          /\ entry.properties["name"] = NameSchema(registry[i].name)
          /\ ~entry.additionalProperties

\* the instance carries a registered name and exactly the fields one
\* definition of that name declares
DeclaredInstance(inst) ==
  \E i \in 1..Len(registry) :
    /\ "name" \in inst.keys
    /\ registry[i].name = inst.name
    /\ inst.keys = {"name"} \cup Keys(registry[i].parameters)

\* the instance has a name that is not registered, or a field that no
\* definition of its name declares
UndeclaredInstance(inst) ==
  \/ \A i \in 1..Len(registry) : registry[i].name # inst.name
  \/ \E key \in inst.keys \ {"name"} :
       \A i \in 1..Len(registry) :
         registry[i].name = inst.name => key \notin Keys(registry[i].parameters)

\* C18: the built schema accepts every instance with a registered name and
\* exactly that component's fields, and rejects every instance with an
\* undeclared field or an unregistered name
SchemaRoundTrip ==
  verdict # None =>
    /\ DeclaredInstance(instance[1]) => verdict[1]
    /\ UndeclaredInstance(instance[1]) => ~verdict[1]

\* the node is rendered in full: a node with an unregistered name renders
\* nothing, a registered node renders its element, and a container renders
\* one slot per child, empty for each unknown child, and every registered
\* child in full
RECURSIVE RenderedInFull(_, _)
RenderedInFull(node, out) ==
  IF node.name \notin RegisteredKinds THEN out = None
  ELSE /\ out # None
       /\ out[1].kind = node.name
       /\ node.name \in {"card", "carousel", "plp_grid"} =>
            LET cs == IF node.children # None THEN node.children[1] ELSE <<>>
                es == out[1].children
            IN  /\ Len(es) = Len(cs)
                /\ Cardinality({j \in 1..Len(es) : es[j] = None}) =
                     Cardinality({i \in 1..Len(cs) :
                                    cs[i].name \notin RegisteredKinds})
                /\ \A i \in 1..Len(cs) :
                     cs[i].name \in RegisteredKinds =>
                       \E j \in 1..Len(es) : RenderedInFull(cs[i], es[j])

\* C19: a node with an unregistered name renders nothing and every other
\* node of the tree, its siblings and their descendants, is still rendered
UnknownNodeRendersNothing ==
  rendered # None => RenderedInFull(tree[1], rendered[1])

\* a card whose first child is unknown and whose later child is a container
\* that is rendered with its own registered child
UnknownNodeRendersNothingWitness ==
  /\ rendered # None
  /\ tree[1].name = "card"
  /\ tree[1].children # None
  /\ Len(tree[1].children[1]) >= 2
  /\ tree[1].children[1][1].name = "bogus"
  /\ tree[1].children[1][2].name = "carousel"
  /\ rendered[1][1].children[1] = None
  /\ rendered[1][1].children[2] # None
  /\ rendered[1][1].children[2][1].children =
       <<None, Some([kind |-> "header"])>>

\* the effective match of a rendered child of a grid
matchShown(out) ==
  IF out # None /\ out[1].kind = "item" /\ out[1].match.t = "number"
    THEN out[1].match.n
    ELSE 0

\* the rendered children of a grid whose effective match is m, in order
shownWithMatch(outs, m) ==
  LET Has(out) == matchShown(out) = m
  IN  SelectSeq(outs, Has)

\* the children of a grid whose effective match is m, in order
childrenWithMatch(children, m) ==
  LET Has(child) == effectiveMatch(child) = m
  IN  SelectSeq(children, Has)

\* C20: a grid renders its children by descending match, absent and
\* non-numeric matches counting as 0, and children of equal effective match
\* in their original relative order
GridOrderedByMatch ==
  rendered # None /\ tree[1].name = "plp_grid" =>
    LET cs == IF tree[1].children # None THEN tree[1].children[1] ELSE <<>>
        es == rendered[1][1].children
    IN  /\ \A i, j \in 1..Len(es) :
             i < j => matchShown(es[i]) >= matchShown(es[j])
        /\ \A m \in {effectiveMatch(cs[i]) : i \in 1..Len(cs)} :
             shownWithMatch(es, m) = mapChildren(childrenWithMatch(cs, m))

\* matches [0.2, 0.9, 0.5] rendered as [0.9, 0.5, 0.2]
GridOrderedByMatchWitness ==
  /\ rendered # None
  /\ tree[1].name = "plp_grid"
  /\ tree[1].children # None
  /\ [i \in 1..Len(tree[1].children[1]) |->
        effectiveMatch(tree[1].children[1][i])] = <<2, 9, 5>>
  /\ [i \in 1..Len(rendered[1][1].children) |->
        matchShown(rendered[1][1].children[i])] = <<9, 5, 2>>

\* the columns a grid asks for are one of 2, 3, 4, 5, 6
SupportedColumns(columns) ==
  columns.t = "number" /\ columns.n \in {c * Scale : c \in 2..6}

\* C21: a grid is laid out with the requested column count when columns is
\* one of 2, 3, 4, 5, 6, and with 3 columns for every other value
ColumnsRequestedOrBaseline ==
  rendered # None /\ tree[1].name = "plp_grid" =>
    rendered[1][1].gridCols =
      IF SupportedColumns(tree[1].columns) THEN tree[1].columns.n \div Scale
                                           ELSE 3

\* C21, amended: as above, except that a value greater than 6 is laid out
\* with 6 columns
ColumnsRequestedCappedOrBaseline ==
  rendered # None /\ tree[1].name = "plp_grid" =>
    rendered[1][1].gridCols =
      IF SupportedColumns(tree[1].columns) THEN tree[1].columns.n \div Scale
      ELSE IF tree[1].columns.t = "number" /\ tree[1].columns.n > 6 * Scale
        THEN 6
        ELSE 3

\* a grid that asks for 7 columns is laid out with 6
ColumnsRequestedCappedOrBaselineWitness ==
  /\ rendered # None
  /\ tree[1].name = "plp_grid"
  /\ tree[1].columns = [t |-> "number", n |-> 7 * Scale]
  /\ rendered[1][1].gridCols = 6

\* C22: no item of a search response has a relevance (score) below 0.4
RelevanceAboveThreshold ==
  Answered200 =>
    \A i \in 1..Len(resp.items) :
      resp.items[i].score # None =>
        resp.items[i].score[1] * 10 >= RelevanceThreshold

NoLineWithoutNumber ==
  rendered # None /\ tree[1].name = "item" =>
    /\ tree[1].price.t # "number" => rendered[1][1].priceLine = None
    /\ tree[1].match.t \in {"absent", "string"} =>
         rendered[1][1].matchLine = None

\* an item with a NaN price and a string for match, rendered without either
\* line
NoLineWithoutNumberWitness ==
  /\ rendered # None
  /\ tree[1].name = "item"
  /\ tree[1].price.t = "nan"
  /\ tree[1].match.t = "string"
  /\ rendered[1][1].priceLine = None
  /\ rendered[1][1].matchLine = None

\* C25: within one search request the embedding provider is called at most
\* once and before any k-NN query; when the embedding call fails the request
\* ends with a service error, no k-NN query having been sent and no row
\* assembled, and nothing is sent afterwards
EmbedOnceBeforeSearch ==
  [][ /\ Len(embLog') <= 1
      /\ ftLog' # ftLog => Len(embLog) = 1
      /\ (pc = "embed" /\ pc' = "done") =>
           /\ resp'.status = 500
           /\ ftLog' = <<>>
           /\ raw' = None
           /\ items' = <<>>
      /\ pc = "done" => embLog' = embLog /\ ftLog' = ftLog /\ items' = items
    ]_vars

\* the embedding call failed and the request ended with a service error
EmbedOnceBeforeSearchWitness ==
  /\ pc = "done"
  /\ resp.status = 500
  /\ Len(embLog) = 1
  /\ ftLog = <<>>

\* C26: every handle that getRedisClient has returned was open when it was
\* returned, whatever the interleaving of the callers
ReturnedHandleOpen ==
  \A c \in Callers : rpc[c] = "returned" => got[c].open

\* C30: sanitize applied to its own output returns it unchanged, so the
\* output is not empty, not longer than the cap, and neither starts nor ends
\* with whitespace
SanitizeIdempotent ==
  sTwice # None =>
    /\ sTwice = sOnce
    /\ sOnce[1] # <<>>
    /\ Len(sOnce[1]) <= sMax
    /\ ~IsSpace(sOnce[1][1])
    /\ ~IsSpace(sOnce[1][Len(sOnce[1])])

\* C27: the results on display come from the newest search that has been
\* answered, never from an earlier one, and while the input is empty the
\* result list is empty and the dropdown closed
StaleNeverShown ==
  /\ results # <<>> => results[1].search = newest
  /\ query = <<>> => results = <<>> /\ ~open

\* C28: loading is true whenever a search issued by runSearch is in flight
LoadingWhileInFlight == inflight # {} => loading

\* C29: the dropdown is open only if the result list is not empty
OpenImpliesResults == open => results # <<>>

\* the dropdown is open on the results of a third search, the second result
\* being the active one
OpenImpliesResultsWitness ==
  /\ open
  /\ Len(results) = 2
  /\ activeIndex = 1
  /\ newest = 3

====
